---------------------------- MODULE Spec2Model ----------------------------
(***************************************************************************)
(* The resume page script: assets/app.js and its older copy (the file      *)
(* kept as unnamed/part_000).  The loader tries an ordered list of         *)
(* candidate paths, bootstrap renders the loaded record or shows the       *)
(* notice, and renderResume projects a record into the #resume container   *)
(* with one of three layouts.                                              *)
(***************************************************************************)
EXTENDS FiniteSets, Integers, Sequences, TLC

VARIABLES
  script,        \* which copy of the script the page loads
  jsyaml,        \* window.jsyaml.load is a function
  query,         \* value of the theme query-string parameter (JS value)
  pc,            \* position of the bootstrap / loadResumeData coroutine
  idx,           \* index of the candidate the for..of loop is at
  inFlight,      \* indices of the candidates whose fetch() has not settled
  fetchCount,    \* number of fetch() calls issued per candidate index
  tried,         \* per settled candidate: what the fetch and the parse did
  file,          \* the {path, text} tryFetch returned last (text only)
  data,          \* value loadResumeData returned
  loaderThrew,   \* loadResumeData rejected
  bootThrew,     \* bootstrap's promise rejected
  renderCalls,   \* number of renderResume calls
  devNote,       \* "absent", or the hidden state of #dev-note
  resumeRoot,    \* [className, children] of #resume
  rin,           \* input of the pure-function specifications
  rout,          \* output of the pure-function specifications
  readyState,    \* document.readyState
  domContentLoaded, \* the DOMContentLoaded event has been dispatched
  listeners,     \* DOMContentLoaded listeners the script has registered
  bootstrapCalls \* number of bootstrap() calls

vars == <<script, jsyaml, query, pc, idx, inFlight, fetchCount, tried, file,
          data, loaderThrew, bootThrew, renderCalls, devNote, resumeRoot,
          rin, rout, readyState, domContentLoaded, listeners, bootstrapCalls>>

\* the document's life cycle, as far as the script takes part in it
lifecycle == <<readyState, domContentLoaded, listeners>>

-----------------------------------------------------------------------------
(* JavaScript values, as far as the script looks at them.                  *)

Undefined == [t |-> "undefined"]
Null == [t |-> "null"]
Str(s) == [t |-> "string", s |-> s]
Num(n) == [t |-> "number", n |-> n]
Bool(b) == [t |-> "boolean", b |-> b]
Arr(a) == [t |-> "array", a |-> a]

\* if(v), v || w, Boolean(v)
Truthy(v) ==
  /\ v.t \notin {"undefined", "null"}
  /\ ~(v.t = "string" /\ v.s = "")
  /\ ~(v.t = "number" /\ v.n = 0)
  /\ ~(v.t = "boolean" /\ ~v.b)

\* v.k for a value v that is neither null nor undefined
Get(v, k) == IF v.t = "object" /\ k \in DOMAIN v THEN v[k] ELSE Undefined

\* v.k throws a TypeError
Nullish(v) == v.t \in {"undefined", "null"}

IsArray(v) == v.t = "array"

\* String(v) for the values join() and innerHTML meet
ToStr(v) ==
  CASE v.t = "string" -> v.s
    [] v.t = "number" -> ToString(v.n)
    [] v.t = "null" -> "null"
    [] v.t = "undefined" -> "undefined"
    [] OTHER -> "[object]"

\* Array.prototype.filter(Boolean)
RECURSIVE FilterBoolean(_)
FilterBoolean(s) ==
  IF s = <<>> THEN <<>>
  ELSE IF Truthy(Head(s)) THEN <<Head(s)>> \o FilterBoolean(Tail(s))
       ELSE FilterBoolean(Tail(s))

\* Array.prototype.join(sep): null and undefined elements give ''
RECURSIVE JoinFrom(_, _, _, _)
JoinFrom(s, sep, i, acc) ==
  IF i > Len(s) THEN acc
  ELSE JoinFrom(s, sep, i + 1,
         acc \o (IF i > 1 THEN sep ELSE "")
             \o (IF Nullish(s[i]) THEN "" ELSE ToStr(s[i])))

Join(s, sep) == JoinFrom(s, sep, 1, "")

\* faulty variant: the flattened list is spread without the Set
RECURSIVE SetSpreadNoDedup(_, _)
SetSpreadNoDedup(all, seen) ==
  IF all = <<>> THEN seen ELSE SetSpreadNoDedup(Tail(all), Append(seen, Head(all)))

\* [...new Set(all)]: insertion order, one entry per value
RECURSIVE SetSpread(_, _)
SetSpread(all, seen) ==
  IF all = <<>> THEN seen
  ELSE SetSpread(Tail(all),
         IF \E k \in 1..Len(seen) : seen[k] = Head(all)
           THEN seen ELSE Append(seen, Head(all)))

-----------------------------------------------------------------------------
(* DOM nodes: [tag, cls, html, kids].  html is the markup assigned to      *)
(* innerHTML / textContent, kids the appended child nodes.                 *)

Node(tag, cls, html, kids) == [tag |-> tag, cls |-> cls, html |-> html, kids |-> kids]

\* the null a section builder returns for an absent section
NoNode == Node("#null", "", "", <<>>)

\* stands for a TypeError thrown while a builder runs
Thrown == Node("#throw", "", "", <<>>)

TextNode(s) == Node("#text", "", s, <<>>)

RECURSIVE DropNull(_)
DropNull(s) ==
  IF s = <<>> THEN <<>>
  ELSE IF Head(s) = NoNode THEN DropNull(Tail(s))
       ELSE <<Head(s)>> \o DropNull(Tail(s))

HasThrown(s) == \E k \in 1..Len(s) : s[k] = Thrown

\* make(tag, cls, content) with a string content: el.innerHTML = content
MakeHtml(tag, cls, content) == Node(tag, cls, content, <<>>)

\* make(tag, cls, content) with an array content: falsy entries are skipped
MakeKids(tag, cls, content) == Node(tag, cls, "", DropNull(content))

\* make(tag, cls) without content
make(tag, cls) == Node(tag, cls, "", <<>>)

\* el.append(child)
AppendChild(el, child) == [el EXCEPT !.kids = Append(@, child)]

RECURSIVE AppendAll(_, _)
AppendAll(el, nodes) ==
  IF nodes = <<>> THEN el ELSE AppendAll(AppendChild(el, Head(nodes)), Tail(nodes))

\* the separator characters of the source, written in ASCII
Bullet == "U+2022"
EmDash == "U+2014"

\* linkify(url, label): null for a falsy url, else an anchor
linkify(url, label) ==
  IF ~Truthy(url) THEN NoNode
  ELSE [tag |-> "a", cls |-> "", kids |-> <<>>, href |-> ToStr(url),
        html |-> IF Truthy(label) THEN ToStr(label) ELSE ToStr(url)]

\* String(d.phone).replace(/\s+/g, ''), tabulated for the phone texts used
StripWhitespace(s) == IF s = "555 0100" THEN "5550100" ELSE s

-----------------------------------------------------------------------------
(* Section builders.  Each returns a node, NoNode (the code's null) or     *)
(* Thrown (a TypeError from reading a property of null / undefined).       *)

\* d.links.forEach(l => linkify(l.url, l.label))
LinkBits(links) ==
  IF ~IsArray(links) THEN <<>>
  ELSE [k \in 1..Len(links.a) |->
          IF Nullish(links.a[k]) THEN Thrown
          ELSE linkify(Get(links.a[k], "url"), Get(links.a[k], "label"))]

\* bits.forEach((b, i) => { if (i > 0) append dot; append b })
RECURSIVE Dotted(_, _)
Dotted(bits, first) ==
  IF bits = <<>> THEN <<>>
  ELSE (IF first THEN <<>> ELSE <<MakeHtml("span", "dot", Bullet)>>)
       \o <<Head(bits)>> \o Dotted(Tail(bits), FALSE)

renderHeader(d) ==
  LET name == IF Truthy(Get(d, "name")) THEN ToStr(Get(d, "name")) ELSE "Your Name"
      who == MakeKids("div", "who",
               << MakeHtml("h1", "", name),
                  IF Truthy(Get(d, "title"))
                    THEN MakeHtml("div", "title", ToStr(Get(d, "title")))
                    ELSE NoNode >>)
      loc == IF Truthy(Get(d, "location"))
               THEN <<MakeHtml("span", "", ToStr(Get(d, "location")))>> ELSE <<>>
      phone == IF Truthy(Get(d, "phone"))
                 THEN <<linkify(Str("tel:" \o StripWhitespace(ToStr(Get(d, "phone")))),
                                Get(d, "phone"))>>
                 ELSE <<>>
      email == IF Truthy(Get(d, "email"))
                 THEN <<linkify(Str("mailto:" \o ToStr(Get(d, "email"))), Get(d, "email"))>>
                 ELSE <<>>
      links == LinkBits(Get(d, "links"))
      bits == loc \o phone \o email \o DropNull(links)
      contacts == AppendAll(make("div", "contacts-line"), Dotted(bits, TRUE))
      header == MakeKids("div", "hdr", <<who, contacts>>)
  IN IF HasThrown(links) THEN Thrown
     ELSE AppendChild(header, MakeHtml("div", "deco", "<svg>"))

\* skills.forEach(s => s.items.forEach(it => all.push(it)))
RECURSIVE FlattenItems(_)
FlattenItems(skills) ==
  IF skills = <<>> THEN <<>>
  ELSE (IF Truthy(Head(skills)) /\ IsArray(Get(Head(skills), "items"))
          THEN Get(Head(skills), "items").a ELSE <<>>)
       \o FlattenItems(Tail(skills))

renderSkills(skills) ==
  IF ~IsArray(skills) \/ Len(skills.a) = 0 THEN NoNode
  ELSE LET all == FlattenItems(skills.a)
           list == Join(SetSpread(all, <<>>), ", ")
       IN AppendAll(make("section", "sec"),
            <<MakeHtml("h2", "", "Skills"), MakeHtml("div", "muted", list)>>)

\* j.highlights.forEach(h => ul.append(make('li', null, h)))
Highlights(j) ==
  LET h == Get(j, "highlights")
  IN IF IsArray(h) /\ Len(h.a) > 0
       THEN <<AppendAll(make("ul", "tight muted"),
                [k \in 1..Len(h.a) |-> MakeHtml("li", "", ToStr(h.a[k]))])>>
       ELSE <<>>

ExperienceItem(j) ==
  IF ~Truthy(j) THEN NoNode
  ELSE LET dur == Join(FilterBoolean(<<Get(j, "start"), Get(j, "end")>>), " - ")
           meta == Join(FilterBoolean(<<Str(dur), Get(j, "location")>>), (" " \o Bullet \o " "))
       IN AppendAll(make("div", "item"),
            <<MakeHtml("div", "role",
                Join(FilterBoolean(<<Get(j, "role"), Get(j, "company")>>), ", "))>>
            \o (IF meta # "" THEN <<MakeHtml("div", "meta", meta)>> ELSE <<>>)
            \o Highlights(j))

renderExperience(exp) ==
  IF ~IsArray(exp) \/ Len(exp.a) = 0 THEN NoNode
  ELSE AppendAll(make("section", "sec"),
         <<MakeHtml("h2", "", "Employment history")>>
         \o DropNull([k \in 1..Len(exp.a) |-> ExperienceItem(exp.a[k])]))

EducationItem(e) ==
  IF Nullish(e) THEN Thrown
  ELSE LET meta == Join(FilterBoolean(<<Get(e, "year"), Get(e, "location")>>), (" " \o Bullet \o " "))
       IN AppendAll(make("div", "item"),
            <<MakeHtml("div", "role",
                Join(FilterBoolean(<<Get(e, "degree"), Get(e, "school")>>), (" " \o EmDash \o " ")))>>
            \o (IF meta # "" THEN <<MakeHtml("div", "meta", meta)>> ELSE <<>>)
            \o (IF Truthy(Get(e, "note"))
                  THEN <<MakeHtml("div", "", ToStr(Get(e, "note")))>> ELSE <<>>))

renderEducation(ed) ==
  IF ~IsArray(ed) \/ Len(ed.a) = 0 THEN NoNode
  ELSE LET items == [k \in 1..Len(ed.a) |-> EducationItem(ed.a[k])]
       IN IF HasThrown(items) THEN Thrown
          ELSE AppendAll(make("section", "sec"),
                 <<MakeHtml("h2", "", "Education")>> \o items)

\* faulty variant: the summary section is built without the if(!txt) guard
renderSummaryAlways(txt) ==
  AppendAll(make("section", "sec"),
    <<MakeHtml("h2", "", "Professional summary"),
      MakeHtml("div", "muted", IF Nullish(txt) THEN "" ELSE ToStr(txt))>>)

renderSummary(txt) ==
  IF ~Truthy(txt) THEN NoNode
  ELSE AppendAll(make("section", "sec"),
         <<MakeHtml("h2", "", "Professional summary"),
           MakeHtml("div", "muted", ToStr(txt))>>)

CertItem(c) ==
  IF Nullish(c) THEN Thrown
  ELSE LET meta == Join(FilterBoolean(<<Get(c, "issuer"), Get(c, "year")>>), (" " \o Bullet \o " "))
       IN AppendAll(make("div", "item"),
            <<MakeHtml("div", "role",
                IF Truthy(Get(c, "name")) THEN ToStr(Get(c, "name")) ELSE "")>>
            \o (IF meta # "" THEN <<MakeHtml("div", "meta", meta)>> ELSE <<>>))

renderCerts(list) ==
  IF ~IsArray(list) \/ Len(list.a) = 0 THEN NoNode
  ELSE LET items == [k \in 1..Len(list.a) |-> CertItem(list.a[k])]
       IN IF HasThrown(items) THEN Thrown
          ELSE AppendAll(make("section", "sec"),
                 <<MakeHtml("h2", "", "Certifications")>> \o items)

\* s.items.forEach(it => wrap.append(make('span', 'pill', it)))
renderSkillsPills(skills) ==
  IF ~IsArray(skills) \/ Len(skills.a) = 0 THEN NoNode
  ELSE LET all == FlattenItems(skills.a)
           wrap == AppendAll(make("div", ""),
                     [k \in 1..Len(all) |-> MakeHtml("span", "pill", ToStr(all[k]))])
       IN AppendAll(make("section", "sec skills-pills"),
            <<MakeHtml("h2", "", "Skills"), wrap>>)

renderHeaderT3(d) ==
  LET name == IF Truthy(Get(d, "name")) THEN ToStr(Get(d, "name")) ELSE "Your Name"
      sub == Join(FilterBoolean(<<Get(d, "location"), Get(d, "phone"), Get(d, "email")>>), ", ")
      who == MakeKids("div", "who",
               << MakeHtml("h1", "", name),
                  AppendAll(make("div", "subline"),
                            IF sub # "" THEN <<TextNode(sub)>> ELSE <<>>) >>)
  IN MakeKids("div", "hdr", <<who>>)

ExperienceItemT3(j) ==
  IF ~Truthy(j) THEN NoNode
  ELSE LET dur == Join(FilterBoolean(<<Get(j, "start"), Get(j, "end")>>), " - ")
           roleLine == Join(FilterBoolean(<<Get(j, "role"), Str(dur)>>), ", ")
           sub == Join(FilterBoolean(<<Get(j, "company"), Get(j, "location")>>), ", ")
       IN AppendAll(make("div", "item"),
            (IF roleLine # "" THEN <<MakeHtml("div", "role", roleLine)>> ELSE <<>>)
            \o (IF sub # "" THEN <<MakeHtml("div", "submeta", sub)>> ELSE <<>>)
            \o Highlights(j))

renderExperienceT3(exp) ==
  IF ~IsArray(exp) \/ Len(exp.a) = 0 THEN NoNode
  ELSE AppendAll(make("section", "sec"),
         <<MakeHtml("h2", "", "Employment history")>>
         \o DropNull([k \in 1..Len(exp.a) |-> ExperienceItemT3(exp.a[k])]))

EducationItemT3(e) ==
  IF Nullish(e) THEN Thrown
  ELSE LET head == Join(FilterBoolean(<<Get(e, "degree"), Get(e, "year")>>), ", ")
           sub == Join(FilterBoolean(<<Get(e, "school"), Get(e, "location")>>), ", ")
       IN AppendAll(make("div", "item"),
            (IF head # "" THEN <<MakeHtml("div", "role", head)>> ELSE <<>>)
            \o (IF sub # "" THEN <<MakeHtml("div", "submeta", sub)>> ELSE <<>>)
            \o (IF Truthy(Get(e, "note"))
                  THEN <<MakeHtml("div", "", ToStr(Get(e, "note")))>> ELSE <<>>))

renderEducationT3(ed) ==
  IF ~IsArray(ed) \/ Len(ed.a) = 0 THEN NoNode
  ELSE LET items == [k \in 1..Len(ed.a) |-> EducationItemT3(ed.a[k])]
       IN IF HasThrown(items) THEN Thrown
          ELSE AppendAll(make("section", "sec"),
                 <<MakeHtml("h2", "", "Education")>> \o items)

-----------------------------------------------------------------------------
(* Layouts.  Each returns [threw, children]: the children of #resume when   *)
(* the function returns or throws (innerHTML = '' has always run).         *)

\* the section array is built in full before any section is appended
Sections(header, blocks) ==
  IF header = Thrown THEN [threw |-> TRUE, children |-> <<>>]
  ELSE IF HasThrown(blocks) THEN [threw |-> TRUE, children |-> <<header>>]
  ELSE [threw |-> FALSE, children |-> <<header>> \o DropNull(blocks)]

renderResumeTheme1(d) ==
  Sections(renderHeader(d),
    << renderSummary(Get(d, "summary")),
       renderSkills(Get(d, "skills")),
       renderExperience(Get(d, "experience")),
       renderEducation(Get(d, "education")),
       renderCerts(Get(d, "certifications")) >>)

renderResumeTheme2(d) ==
  LET header == renderHeader(d)
      left == <<renderSkillsPills(Get(d, "skills"))>>
      right == << renderSummary(Get(d, "summary")),
                  renderExperience(Get(d, "experience")),
                  renderEducation(Get(d, "education")),
                  renderCerts(Get(d, "certifications")) >>
      aside == AppendAll(make("aside", "aside"), DropNull(left))
      main == AppendAll(make("div", "main"), DropNull(right))
      cols == AppendAll(make("div", "columns"), <<aside, main>>)
      body == AppendChild(make("section", "sec"), cols)
  IN IF header = Thrown THEN [threw |-> TRUE, children |-> <<>>]
     ELSE IF HasThrown(right) THEN [threw |-> TRUE, children |-> <<header>>]
     ELSE [threw |-> FALSE, children |-> <<header, body>>]

renderResumeTheme3(d) ==
  Sections(renderHeaderT3(d),
    << renderSummary(Get(d, "summary")),
       renderSkills(Get(d, "skills")),
       renderExperienceT3(Get(d, "experience")),
       renderEducationT3(Get(d, "education")),
       renderCerts(Get(d, "certifications")) >>)

\* faulty variant: the query string is consulted before the record
ResolveThemeQueryFirst(d, q) ==
  LET own == IF Truthy(d) THEN Get(d, "theme") ELSE d
  IN IF Truthy(q) THEN q ELSE IF Truthy(own) THEN own ELSE Str("t1")

\* (d && d.theme) || urlParams.get('theme') || 't1', then the norm arrow
ResolveTheme(d, q) ==
  LET own == IF Truthy(d) THEN Get(d, "theme") ELSE d
      th == IF Truthy(own) THEN own ELSE IF Truthy(q) THEN q ELSE Str("t1")
  IN IF ~Truthy(th) THEN Str("t1") ELSE th

\* faulty variant: the theme id is compared ignoring case
DispatchIgnoreCase(norm) ==
  IF norm \in {Str("t2"), Str("T2")} THEN "theme2"
  ELSE IF norm \in {Str("t3"), Str("T3")} THEN "theme3"
  ELSE "theme1"

\* which layout function renderResume dispatches to
Dispatch(norm) ==
  IF norm = Str("t2") THEN "theme2"
  ELSE IF norm = Str("t3") THEN "theme3"
  ELSE "theme1"

\* renderResume(d) under query parameter q: the state of #resume afterwards
renderResume(d, q) ==
  LET norm == ResolveTheme(d, q)
      layout == Dispatch(norm)
      r == CASE layout = "theme2" -> renderResumeTheme2(d)
             [] layout = "theme3" -> renderResumeTheme3(d)
             [] OTHER -> renderResumeTheme1(d)
  IN [threw |-> r.threw,
      className |-> "resume theme-" \o ToStr(norm),
      children |-> r.children]

-----------------------------------------------------------------------------
(* Response bodies.  A text is a sequence of tokens; the first token of a  *)
(* text that starts with a brace or a bracket is that character alone.     *)

Whitespace == {" ", "\n"}

\* String.prototype.trim()
RECURSIVE TrimStart(_)
TrimStart(text) ==
  IF text # <<>> /\ Head(text) \in Whitespace THEN TrimStart(Tail(text)) ELSE text

RECURSIVE TrimEnd(_)
TrimEnd(text) ==
  IF text # <<>> /\ text[Len(text)] \in Whitespace
    THEN TrimEnd(SubSeq(text, 1, Len(text) - 1)) ELSE text

Trim(text) == TrimEnd(TrimStart(text))

\* String.prototype.startsWith(c)
StartsWith(text, c) == text # <<>> /\ Head(text) = c

\* the records the sample bodies hold
RecA == [t |-> "object", name |-> Str("A"), email |-> Str("a@x.com")]
RecT2 == [t |-> "object", name |-> Str("B"), theme |-> Str("t2"),
          summary |-> Str("S"),
          skills |-> Arr(<<[t |-> "object", items |-> Arr(<<Str("Go"), Str("Go")>>)]>>)]
RecBadEdu == [t |-> "object", name |-> Str("C"), education |-> Arr(<<Null>>)]
RecYaml == [t |-> "object", name |-> Str("Y"), theme |-> Str("t3"),
            certifications |-> Arr(<<[t |-> "object", name |-> Str("CKA")]>>)]

DocA == <<"{", "\"name\":\"A\",\"email\":\"a@x.com\"", "}">>
DocT2 == <<"\n", "{", "\"name\":\"B\",\"theme\":\"t2\",...", "}", "\n">>
DocBadEdu == <<"{", "\"name\":\"C\",\"education\":[null]", "}">>
DocTruncated == <<"{", "\"name\":">>
DocArray == <<"[", "]">>
DocScalar == <<"\"x\"">>
DocNull == <<"null">>
DocFalse == <<"false">>
DocZero == <<"0">>
DocEmptyString == <<"\"\"">>
DocYaml == <<"name: Y", "\n", "theme: t3", "\n", "certifications: [{name: CKA}]">>
DocYamlBad == <<"name: [">>
DocEmpty == <<" ">>

Docs == {DocA, DocT2, DocBadEdu, DocTruncated, DocArray, DocScalar,
         DocNull, DocFalse, DocZero, DocEmptyString, DocYaml, DocYamlBad, DocEmpty}

Returned(v) == [kind |-> "return", v |-> v]
Threw == [kind |-> "throw", v |-> Undefined]
Continue == [kind |-> "continue", v |-> Undefined]

\* JSON.parse(text): surrounding whitespace is insignificant
JSONParse(text) ==
  LET t == Trim(text)
  IN CASE t = DocA -> Returned(RecA)
       [] t = Trim(DocT2) -> Returned(RecT2)
       [] t = DocBadEdu -> Returned(RecBadEdu)
       [] t = DocArray -> Returned(Arr(<<>>))
       [] t = DocScalar -> Returned(Str("x"))
       [] t = DocNull -> Returned(Null)
       [] t = DocFalse -> Returned(Bool(FALSE))
       [] t = DocZero -> Returned(Num(0))
       [] t = DocEmptyString -> Returned(Str(""))
       [] OTHER -> Threw

ValidJSON(text) == JSONParse(text).kind = "return"

\* what kind of body a text is: a JSON object or array, another JSON value,
\* or no JSON at all
BodyKind(text) ==
  IF ~ValidJSON(text) THEN "other"
  ELSE IF JSONParse(text).v.t \in {"object", "array"} THEN "jsonStruct"
  ELSE "jsonScalar"

\* window.jsyaml.load(text): YAML reads every JSON text as JSON does
YAMLLoad(text) ==
  LET t == Trim(text)
  IN CASE ValidJSON(text) -> JSONParse(text)
       [] t = DocYaml -> Returned(RecYaml)
       [] t = <<>> -> Returned(Undefined)
       [] OTHER -> Threw

-----------------------------------------------------------------------------
(* The loader.                                                             *)

Path(dir, ext) == [dir |-> dir, base |-> "resume", ext |-> ext]

\* p.endsWith(ext)
EndsWith(p, ext) == p.ext = ext

CandidatesApp ==
  << Path("", ".json"), Path("/", ".json"),
     Path("", ".yaml"), Path("/", ".yaml"),
     Path("", ".yml"), Path("/", ".yml") >>

CandidatesLegacy == << Path("", ".yaml"), Path("", ".yml"), Path("", ".json") >>

Candidates == IF script = "app" THEN CandidatesApp ELSE CandidatesLegacy

\* faulty variant: only a leading brace counts as JSON-like
parseMaybeJSONBraceOnly(text) ==
  LET t == Trim(text)
  IN IF StartsWith(t, "{") THEN JSONParse(t) ELSE Returned(Null)

\* parseMaybeJSON(text): the parsed value, null, or a SyntaxError
parseMaybeJSON(text) ==
  LET t == Trim(text)
  IN IF StartsWith(t, "{") \/ StartsWith(t, "[") THEN JSONParse(t)
     ELSE Returned(Null)

\* faulty variant: a parsed value is returned only when it is truthy
ParseBodyTruthyOnly(p, text, yaml) ==
  LET parsed == IF EndsWith(p, ".json") THEN JSONParse(text)
                ELSE LET maybe == parseMaybeJSON(text)
                     IN IF maybe.kind = "throw" THEN Threw
                        ELSE IF Truthy(maybe.v) THEN maybe
                        ELSE IF yaml THEN YAMLLoad(text)
                        ELSE Continue
  IN IF parsed.kind = "return" /\ ~Truthy(parsed.v) THEN Continue ELSE parsed

\* the body of the try block of loadResumeData for file {p, text}
ParseBody(p, text, yaml) ==
  IF EndsWith(p, ".json") THEN JSONParse(text)
  ELSE LET maybe == parseMaybeJSON(text)
       IN IF maybe.kind = "throw" THEN Threw
          ELSE IF Truthy(maybe.v) THEN maybe
          ELSE IF yaml THEN YAMLLoad(text)
          ELSE Continue

\* faulty variant: the try block without its catch
ParseUncaught(p, text, yaml) == ParseBody(p, text, yaml)

\* try { ... } catch (e) { continue; } around the body

ParseFile(p, text, yaml) ==
  LET r == ParseBody(p, text, yaml)
  IN IF r.kind = "throw" THEN Continue ELSE r

\* faulty variant: tryFetch without its catch
TryFetchUncaught(ev) ==
  CASE ev = "fetchRejected" -> "throw"
    [] ev = "notOk" -> "null"
    [] ev = "ok" -> "read"
    [] ev = "textRejected" -> "throw"
    [] ev = "text" -> "file"

\* what tryFetch does with a settled fetch / text promise:
\* "null", "file", "read" (go on to res.text()) or "throw"
tryFetch(ev) ==
  LET r == CASE ev = "fetchRejected" -> "throw"
             [] ev = "notOk" -> "null"
             [] ev = "ok" -> "read"
             [] ev = "textRejected" -> "throw"
             [] ev = "text" -> "file"
  IN IF r = "throw" THEN "null" ELSE r

NoFile == <<"#nofile">>

\* what is remembered of a settled candidate: how its fetch and its body read
\* settled, the kind of body, and what the parse did
Entry(fetch, read, body, parse) ==
  [fetch |-> fetch, read |-> read, body |-> body, parse |-> parse]

\* faulty variant: a failed candidate is fetched once more before moving on
NextCandidateRetry(e) ==
  /\ tried' = Append(tried, e)
  /\ file' = NoFile
  /\ IF fetchCount[idx] < 2
       THEN /\ fetchCount' = [fetchCount EXCEPT ![idx] = @ + 1]
            /\ pc' = "fetching"
            /\ UNCHANGED <<idx, inFlight, data, loaderThrew>>
       ELSE /\ inFlight' = inFlight \ {idx}
            /\ pc' = "loaded"
            /\ data' = Null
            /\ UNCHANGED <<idx, fetchCount, loaderThrew>>

\* `continue` / the next turn of the for..of loop: fetch the next candidate,
\* or fall out of the loop and return null
NextCandidate(e) ==
  /\ tried' = Append(tried, e)
  /\ file' = NoFile
  /\ IF idx < Len(Candidates)
       THEN /\ idx' = idx + 1
            /\ inFlight' = (inFlight \ {idx}) \cup {idx + 1}
            /\ fetchCount' = [fetchCount EXCEPT ![idx + 1] = @ + 1]
            /\ pc' = "fetching"
            /\ UNCHANGED <<data, loaderThrew>>
       ELSE /\ inFlight' = inFlight \ {idx}
            /\ pc' = "loaded"
            /\ data' = Null
            /\ UNCHANGED <<idx, fetchCount, loaderThrew>>

\* an exception leaves loadResumeData: its promise rejects
LoaderRejects(e) ==
  /\ tried' = Append(tried, e)
  /\ inFlight' = inFlight \ {idx}
  /\ pc' = "loaded"
  /\ loaderThrew' = TRUE
  /\ UNCHANGED <<idx, fetchCount, file, data>>

\* return obj / return maybe / return y
LoaderReturns(e, v, text) ==
  /\ tried' = Append(tried, e)
  /\ inFlight' = inFlight \ {idx}
  /\ file' = text
  /\ pc' = "loaded"
  /\ data' = v
  /\ UNCHANGED <<idx, fetchCount, loaderThrew>>

\* the environment's answers to fetch(path, {cache: 'no-store'})
FetchEvents == {"fetchRejected", "notOk", "ok"}

\* bootstrap() starts: loadResumeData() runs up to its first await, i.e.
\* tryFetch(candidates[0]) has called fetch
BootstrapStart ==
  /\ pc = "start"
  /\ pc' = "fetching"
  /\ idx' = 1
  /\ inFlight' = inFlight \cup {1}
  /\ fetchCount' = [fetchCount EXCEPT ![1] = @ + 1]
  /\ bootstrapCalls' = bootstrapCalls + 1
  /\ UNCHANGED <<script, jsyaml, query, tried, file, data, loaderThrew, bootThrew,
                 renderCalls, devNote, resumeRoot, rin, rout>>
  /\ UNCHANGED lifecycle

\* the fetch promise of the current candidate settles
FetchSettles ==
  /\ pc = "fetching"
  /\ \E ev \in FetchEvents :
       LET r == tryFetch(ev)
           e == Entry(ev, "none", "none", "none")
       IN CASE r = "read" ->
                 /\ pc' = "reading"
                 /\ UNCHANGED <<idx, inFlight, fetchCount, tried, file, data, loaderThrew>>
            [] r = "null" -> NextCandidate(e)
            [] OTHER -> LoaderRejects(e)
  /\ UNCHANGED <<script, jsyaml, query, bootThrew, renderCalls, devNote, resumeRoot,
                 rin, rout>>
  /\ UNCHANGED <<lifecycle, bootstrapCalls>>

\* res.text() rejects
TextRejects ==
  /\ pc = "reading"
  /\ LET r == tryFetch("textRejected")
         e == Entry("ok", "rejected", "none", "none")
     IN IF r = "null" THEN NextCandidate(e) ELSE LoaderRejects(e)
  /\ UNCHANGED <<script, jsyaml, query, bootThrew, renderCalls, devNote, resumeRoot,
                 rin, rout>>
  /\ UNCHANGED <<lifecycle, bootstrapCalls>>

\* res.text() resolves with a body; the loader parses it
TextResolves ==
  /\ pc = "reading"
  /\ tryFetch("text") = "file"
  /\ \E text \in Docs :
       LET p == Candidates[idx]
           r == ParseFile(p, text, jsyaml)
           raw == ParseBody(p, text, jsyaml)
       IN CASE r.kind = "return" ->
                 LoaderReturns(Entry("ok", "ok", BodyKind(text), "returned"), r.v, text)
            [] r.kind = "continue" ->
                 NextCandidate(Entry("ok", "ok", BodyKind(text),
                                     IF raw.kind = "throw" THEN "threw" ELSE "noparser"))
            [] OTHER -> LoaderRejects(Entry("ok", "ok", BodyKind(text), "threw"))
  /\ UNCHANGED <<script, jsyaml, query, bootThrew, renderCalls, devNote, resumeRoot,
                 rin, rout>>
  /\ UNCHANGED <<lifecycle, bootstrapCalls>>

\* the values of ?theme= tried
Queries == {Null, Str("t1")}

\* if (devNote) devNote.hidden = h
SetHidden(h) == IF devNote = "absent" THEN "absent" ELSE h

\* faulty variant: the else branch does not unhide the notice
BootstrapAppNoNotice(q) ==
  LET r == renderResume(data, q)
  IN IF loaderThrew
       THEN /\ devNote' = SetHidden("shown")
            /\ UNCHANGED <<resumeRoot, renderCalls, query, bootThrew>>
       ELSE IF Truthy(data)
         THEN /\ query' = q
              /\ renderCalls' = renderCalls + 1
              /\ resumeRoot' = [className |-> r.className, children |-> r.children]
              /\ devNote' = IF r.threw THEN SetHidden("shown") ELSE SetHidden("hidden")
              /\ UNCHANGED bootThrew
         ELSE UNCHANGED <<devNote, resumeRoot, renderCalls, query, bootThrew>>

\* bootstrap of assets/app.js after `await loadResumeData()`
BootstrapApp(q) ==
  LET r == renderResume(data, q)
  IN IF loaderThrew
       THEN /\ devNote' = SetHidden("shown")
            /\ UNCHANGED <<resumeRoot, renderCalls, query, bootThrew>>
       ELSE IF Truthy(data)
         THEN /\ query' = q
              /\ renderCalls' = renderCalls + 1
              /\ resumeRoot' = [className |-> r.className, children |-> r.children]
              /\ devNote' = IF r.threw THEN SetHidden("shown") ELSE SetHidden("hidden")
              /\ UNCHANGED bootThrew
         ELSE /\ devNote' = SetHidden("shown")
              /\ UNCHANGED <<resumeRoot, renderCalls, query, bootThrew>>

\* bootstrap of the older copy: no try / catch, devNote is not null-checked
BootstrapLegacy(q) ==
  LET r == renderResume(data, q)
  IN IF loaderThrew
       THEN /\ bootThrew' = TRUE
            /\ UNCHANGED <<resumeRoot, renderCalls, query, devNote>>
       ELSE IF Truthy(data)
         THEN /\ query' = q
              /\ renderCalls' = renderCalls + 1
              /\ resumeRoot' = [className |-> r.className, children |-> r.children]
              /\ devNote' = IF r.threw \/ devNote = "absent" THEN devNote ELSE "hidden"
              /\ bootThrew' = (r.threw \/ devNote = "absent")
         ELSE /\ devNote' = IF devNote = "absent" THEN devNote ELSE "shown"
              /\ bootThrew' = (devNote = "absent")
              /\ UNCHANGED <<resumeRoot, renderCalls, query>>

\* bootstrap resumes once loadResumeData has settled
BootstrapResume ==
  /\ pc = "loaded"
  /\ pc' = "done"
  /\ \E q \in Queries :
       IF script = "app" THEN BootstrapApp(q) ELSE BootstrapLegacy(q)
  /\ UNCHANGED <<script, jsyaml, idx, inFlight, fetchCount, tried, file, data,
                 loaderThrew, rin, rout>>
  /\ UNCHANGED <<lifecycle, bootstrapCalls>>

\* #resume as the page ships it: an empty container
InitialResumeRoot == [className |-> "", children |-> <<>>]

Init ==
  /\ script \in {"app", "legacy"}
  /\ jsyaml \in BOOLEAN
  /\ query = Undefined
  /\ pc = "start"
  /\ idx = 0
  /\ inFlight = {}
  /\ fetchCount = [k \in 1..Len(Candidates) |-> 0]
  /\ tried = <<>>
  /\ file = NoFile
  /\ data = Undefined
  /\ loaderThrew = FALSE
  /\ bootThrew = FALSE
  /\ renderCalls = 0
  /\ devNote \in {"absent", "hidden", "shown"}
  /\ resumeRoot = InitialResumeRoot
  /\ rin = Undefined
  /\ rout = Undefined
  /\ readyState = "interactive"
  /\ domContentLoaded = TRUE
  /\ listeners = 0
  /\ bootstrapCalls = 0

Next ==
  \/ BootstrapStart
  \/ FetchSettles
  \/ TextRejects
  \/ TextResolves
  \/ BootstrapResume

Spec == Init /\ [][Next]_vars

-----------------------------------------------------------------------------
(* The page load: the document goes from loading to interactive to         *)
(* complete, the script executes at some moment of it, and the last        *)
(* statement of the script decides how bootstrap gets called.  What a      *)
(* started bootstrap goes on to do is the subject of Spec.                 *)

\* the last statement of assets/app.js
TriggerApp(rs) == IF rs # "loading" THEN "call" ELSE "listen"

\* the last statement of the older copy
TriggerLegacy(rs) == "listen"

Trigger(rs) == IF script = "app" THEN TriggerApp(rs) ELSE TriggerLegacy(rs)

\* a call of bootstrap(): it runs up to the first await of loadResumeData
CallBootstrap ==
  /\ pc' = "fetching"
  /\ idx' = 1
  /\ inFlight' = inFlight \cup {1}
  /\ fetchCount' = [fetchCount EXCEPT ![1] = @ + 1]
  /\ bootstrapCalls' = bootstrapCalls + 1

\* the top level of the script runs, at whatever moment the page loads it
ScriptExecutes ==
  /\ pc = "unloaded"
  /\ IF Trigger(readyState) = "call"
       THEN CallBootstrap /\ UNCHANGED listeners
       ELSE /\ listeners' = listeners + 1
            /\ pc' = "listening"
            /\ UNCHANGED <<idx, inFlight, fetchCount, bootstrapCalls>>
  /\ UNCHANGED <<script, jsyaml, query, tried, file, data, loaderThrew, bootThrew,
                 renderCalls, devNote, resumeRoot, rin, rout, readyState,
                 domContentLoaded>>

\* the parser reaches the end of the document
ParsingCompletes ==
  /\ readyState = "loading"
  /\ readyState' = "interactive"
  /\ UNCHANGED <<script, jsyaml, query, pc, idx, inFlight, fetchCount, tried, file,
                 data, loaderThrew, bootThrew, renderCalls, devNote, resumeRoot,
                 rin, rout, domContentLoaded, listeners, bootstrapCalls>>

\* DOMContentLoaded is dispatched once; the listeners registered by then run
DOMContentLoadedFires ==
  /\ readyState = "interactive"
  /\ ~domContentLoaded
  /\ domContentLoaded' = TRUE
  /\ IF listeners > 0
       THEN CallBootstrap
       ELSE UNCHANGED <<pc, idx, inFlight, fetchCount, bootstrapCalls>>
  /\ UNCHANGED <<script, jsyaml, query, tried, file, data, loaderThrew, bootThrew,
                 renderCalls, devNote, resumeRoot, rin, rout, readyState, listeners>>

\* the sub-resources are in: the document is complete
LoadCompletes ==
  /\ readyState = "interactive"
  /\ domContentLoaded
  /\ readyState' = "complete"
  /\ UNCHANGED <<script, jsyaml, query, pc, idx, inFlight, fetchCount, tried, file,
                 data, loaderThrew, bootThrew, renderCalls, devNote, resumeRoot,
                 rin, rout, domContentLoaded, listeners, bootstrapCalls>>

InitTrigger ==
  /\ script \in {"app", "legacy"}
  /\ jsyaml \in BOOLEAN
  /\ query = Undefined
  /\ pc = "unloaded"
  /\ idx = 0
  /\ inFlight = {}
  /\ fetchCount = [k \in 1..Len(Candidates) |-> 0]
  /\ tried = <<>>
  /\ file = NoFile
  /\ data = Undefined
  /\ loaderThrew = FALSE
  /\ bootThrew = FALSE
  /\ renderCalls = 0
  /\ devNote \in {"absent", "hidden", "shown"}
  /\ resumeRoot = InitialResumeRoot
  /\ rin = Undefined
  /\ rout = Undefined
  /\ readyState = "loading"
  /\ domContentLoaded = FALSE
  /\ listeners = 0
  /\ bootstrapCalls = 0

NextTrigger ==
  \/ ScriptExecutes
  \/ ParsingCompletes
  \/ DOMContentLoadedFires
  \/ LoadCompletes

SpecTrigger == InitTrigger /\ [][NextTrigger]_vars

-----------------------------------------------------------------------------
(* renderResume as a function of the record and the query string.          *)

\* marks a field the record does not have
Absent == [t |-> "absent"]

Opt(k, v) == IF v = Absent THEN [x \in {} |-> Undefined] ELSE (k :> v)

Cat(items) == [t |-> "object", category |-> Str("Languages"), items |-> Arr(items)]
Job == [t |-> "object", role |-> Str("Engineer"), company |-> Str("Acme"),
        start |-> Str("2020"), highlights |-> Arr(<<Str("Shipped")>>)]
Edu == [t |-> "object", degree |-> Str("BSc"), school |-> Str("MIT"), year |-> Num(2010)]
Cert == [t |-> "object", name |-> Str("CKA"), issuer |-> Str("CNCF")]
Link == [t |-> "object", url |-> Str("https://x.dev"), label |-> Str("site")]

ThemeOpts == {Absent, Str(""), Str("t1"), Str("t2"), Str("t3"), Str("t9"), Str("T2")}
QueryOpts == {Null, Str(""), Str("t1"), Str("t2"), Str("t3"), Str("t9")}
SummaryOpts == {Absent, Str(""), Str("S")}
SkillsOpts == {Absent, Arr(<<>>),
               Arr(<<Cat(<<Str("Go"), Str("Go"), Str("Rust")>>), Cat(<<Str("Rust")>>)>>)}
ExperienceOpts == {Absent, Arr(<<>>), Arr(<<Job, Null>>)}
EducationOpts == {Absent, Arr(<<>>), Arr(<<Edu>>), Arr(<<Null>>)}
CertOpts == {Absent, Arr(<<>>), Arr(<<Cert>>)}
LinksOpts == {Absent, Arr(<<Link>>), Arr(<<Null>>)}

RenderInputs ==
  [theme : ThemeOpts, q : QueryOpts, summary : SummaryOpts, skills : SkillsOpts,
   experience : ExperienceOpts, education : EducationOpts,
   certifications : CertOpts, links : LinksOpts]

\* the record an input stands for
MkRecord(o) ==
  [t |-> "object", name |-> Str("A"), phone |-> Str("555 0100")]
    @@ Opt("theme", o.theme) @@ Opt("summary", o.summary) @@ Opt("skills", o.skills)
    @@ Opt("experience", o.experience) @@ Opt("education", o.education)
    @@ Opt("certifications", o.certifications) @@ Opt("links", o.links)

\* the page at rest: nothing of the loader runs in the function specifications
Idle ==
  /\ script = "app"
  /\ jsyaml = FALSE
  /\ query = Undefined
  /\ idx = 0
  /\ inFlight = {}
  /\ fetchCount = [k \in 1..Len(Candidates) |-> 0]
  /\ tried = <<>>
  /\ file = NoFile
  /\ data = Undefined
  /\ loaderThrew = FALSE
  /\ bootThrew = FALSE
  /\ renderCalls = 0
  /\ devNote = "absent"
  /\ resumeRoot = InitialResumeRoot
  /\ readyState = "complete"
  /\ domContentLoaded = TRUE
  /\ listeners = 0
  /\ bootstrapCalls = 0

InitRender ==
  /\ Idle
  /\ pc = "render"
  /\ rin \in RenderInputs
  /\ rout = Undefined

\* renderResume(d) with location.search holding ?theme=q
RenderResumeCall ==
  /\ pc = "render"
  /\ pc' = "rendered"
  /\ rout' = renderResume(MkRecord(rin), rin.q)
  /\ UNCHANGED <<script, jsyaml, query, idx, inFlight, fetchCount, tried, file, data,
                 loaderThrew, bootThrew, renderCalls, devNote, resumeRoot, rin>>
  /\ UNCHANGED <<lifecycle, bootstrapCalls>>

NextRender == RenderResumeCall

SpecRender == InitRender /\ [][NextRender]_vars

-----------------------------------------------------------------------------
(* renderSkills as a function of the skills field.                         *)

MaxCats == 2
MaxItems == 3

SeqsUpTo(S, n) == UNION {[1..k -> S] : k \in 0..n}

SkillItems == {Str("Go"), Str("Rust")}

\* a category: null, an object without items, or an object with items
CatInputs ==
  {Null, [t |-> "object", category |-> Str("Misc")]}
    \cup {Cat(items) : items \in SeqsUpTo(SkillItems, MaxItems)}

SkillsInputs == {Undefined} \cup {Arr(cats) : cats \in SeqsUpTo(CatInputs, MaxCats)}

InitSkills ==
  /\ Idle
  /\ pc = "skills"
  /\ rin \in SkillsInputs
  /\ rout = Undefined

RenderSkillsCall ==
  /\ pc = "skills"
  /\ pc' = "skillsDone"
  /\ rout' = renderSkills(rin)
  /\ UNCHANGED <<script, jsyaml, query, idx, inFlight, fetchCount, tried, file, data,
                 loaderThrew, bootThrew, renderCalls, devNote, resumeRoot, rin>>
  /\ UNCHANGED <<lifecycle, bootstrapCalls>>

NextSkills == RenderSkillsCall

SpecSkills == InitSkills /\ [][NextSkills]_vars

-----------------------------------------------------------------------------
(* Properties of the loader and of bootstrap, checked under Spec.          *)

\* loadResumeData has settled
Settled == pc \in {"loaded", "done"}

\* candidate k did not produce the loader's return value
Failed(e) == e.parse # "returned"

\* candidate k exists with a valid JSON body, every earlier candidate answered
\* with a non-success status and no later candidate exists
OnlyExisting(k) ==
  /\ tried[k].fetch = "ok"
  /\ tried[k].read = "ok"
  /\ tried[k].body \in {"jsonStruct", "jsonScalar"}
  /\ \A j \in 1..Len(tried) :
       /\ j < k => tried[j].fetch = "notOk"
       /\ j > k => tried[j].fetch # "ok"

\* the loader returned at candidate k with the parsed content of its body
ReturnedAt(k) ==
  /\ Settled
  /\ ~loaderThrew
  /\ Len(tried) = k
  /\ tried[k].parse = "returned"
  /\ data = JSONParse(file).v

\* C1 as stated: the only existing candidate, holding any valid JSON body, is
\* returned with its parsed content whatever its position in the list.
C1_AnyValidJSON ==
  Settled => \A k \in 1..Len(tried) : OnlyExisting(k) => ReturnedAt(k)

\* C1 as amended: the only existing candidate is returned with its parsed
\* content whatever its position, when its valid JSON body is an object or an
\* array or the candidate has the .json extension.
C1_StructOrJsonExt ==
  Settled => \A k \in 1..Len(tried) :
    (OnlyExisting(k)
       /\ (EndsWith(Candidates[k], ".json") \/ tried[k].body = "jsonStruct"))
      => ReturnedAt(k)

C1_Witness ==
  /\ script = "app"
  /\ ~jsyaml
  /\ Len(tried) = 5
  /\ OnlyExisting(5)
  /\ ReturnedAt(5)
  /\ data = RecA

\* a .json candidate was fetched and read, and its body is not JSON
MalformedJsonAt(k) ==
  /\ EndsWith(Candidates[k], ".json")
  /\ tried[k].read = "ok"
  /\ tried[k].body = "other"

\* the loop went on after candidate k: the next candidate was fetched, or the
\* list was exhausted and null returned
WentOn(k) ==
  IF k < Len(Candidates)
    THEN /\ fetchCount[k + 1] >= 1
         /\ \/ Len(tried) > k
            \/ pc \in {"fetching", "reading"} /\ idx = k + 1
    ELSE Settled /\ data = Null

\* C2: a malformed JSON body at a .json candidate makes that candidate fail
\* without raising to the caller, and the next candidate is tried.
C2_MalformedJsonSkipped ==
  \A k \in 1..Len(tried) :
    MalformedJsonAt(k) => (~loaderThrew /\ tried[k].parse = "threw" /\ WentOn(k))

C2_Witness ==
  /\ Settled
  /\ Len(tried) = 2
  /\ MalformedJsonAt(1)
  /\ tried[2].parse = "returned"
  /\ data = RecA

\* C3: loadResumeData never rejects; every failing candidate only advances
\* the loop, and when all candidates fail the loader returns null.
C3_NeverThrows ==
  /\ ~loaderThrew
  /\ \A k \in 1..Len(tried) : Failed(tried[k]) => WentOn(k)
  /\ (Settled /\ \A k \in 1..Len(tried) : Failed(tried[k]))
       => (data = Null /\ Len(tried) = Len(Candidates))

C3_Witness ==
  /\ pc = "done"
  /\ script = "app"
  /\ data = Null
  /\ Len(tried) = Len(Candidates)
  /\ \E k \in 1..Len(tried) : tried[k].fetch = "fetchRejected"
  /\ \E k \in 1..Len(tried) : tried[k].fetch = "notOk"
  /\ \E k \in 1..Len(tried) : tried[k].read = "rejected"
  /\ \E k \in 1..Len(tried) : tried[k].parse = "threw"
  /\ \E k \in 1..Len(tried) : tried[k].parse = "noparser"

\* renderResume was called and threw
RenderThrew == renderCalls > 0 /\ renderResume(data, query).threw

\* the notice element, when the page has one, is visible
NoticeVisible == devNote # "absent" => devNote = "shown"

\* C4: after an exception during rendering the notice is visible and the
\* container holds no partially rendered page.
C4_NoPartialPage ==
  (pc = "done" /\ script = "app" /\ RenderThrew)
    => (~bootThrew /\ NoticeVisible /\ resumeRoot.children = <<>>)

\* C5: with no candidate file present, bootstrap ends with the notice
\* visible and the container empty, and renderResume is never called.
C5_NoFilesNotice ==
  (pc = "done" /\ \A k \in 1..Len(tried) : tried[k].fetch # "ok")
    => (NoticeVisible /\ resumeRoot.children = <<>> /\ renderCalls = 0)

C5_Witness ==
  /\ pc = "done"
  /\ script = "app"
  /\ Len(tried) = Len(Candidates)
  /\ \A k \in 1..Len(tried) : tried[k].fetch # "ok"
  /\ devNote = "shown"
  /\ resumeRoot.children = <<>>

\* C10: fetches are sequential and in list order: at most one is in flight,
\* a candidate is fetched only after every earlier one settled and failed,
\* no candidate is fetched twice, and once no fetch is pending the loader has
\* ended, within one pass.
C10_Sequential ==
  /\ Cardinality(inFlight) <= 1
  /\ Len(tried) <= Len(Candidates)
  /\ \A k \in DOMAIN fetchCount :
       /\ fetchCount[k] <= 1
       /\ fetchCount[k] = 1 =>
            \A j \in 1..(k - 1) : j <= Len(tried) /\ Failed(tried[j])
       /\ k \in inFlight => fetchCount[k] = 1 /\ Len(tried) = k - 1
  /\ (pc # "start" /\ inFlight = {}) => Settled
  /\ Settled => inFlight = {}

C10_Witness ==
  /\ pc = "done"
  /\ script = "app"
  /\ \A k \in DOMAIN fetchCount : fetchCount[k] = 1
  /\ Len(tried) = Len(Candidates)

-----------------------------------------------------------------------------
(* Properties of renderResume, checked under SpecRender.                   *)

\* the layout a rendered container shows, read off its nodes: the two-column
\* body, the header without a contact line (theme 3), or the default
LayoutOf(children) ==
  IF \E k \in 1..Len(children) :
       \E m \in 1..Len(children[k].kids) : children[k].kids[m].cls = "columns"
    THEN "two-column"
  ELSE IF \E m \in 1..Len(children[1].kids) : children[1].kids[m].cls = "contacts-line"
    THEN "single-column default"
  ELSE "single-column alternate"

LayoutFor(id) ==
  IF id = "t2" THEN "two-column"
  ELSE IF id = "t3" THEN "single-column alternate"
  ELSE "single-column default"

\* the record of the input has a theme / the query string has one
OwnTheme == rin.theme \notin {Absent, Str("")}
QueryTheme == rin.q \notin {Null, Str("")}

\* the theme id in force
ExpectedTheme ==
  IF OwnTheme THEN rin.theme.s ELSE IF QueryTheme THEN rin.q.s ELSE "t1"

\* C6: the theme is the record's own, else the query string's, else 't1';
\* a record with theme 't2' gets the two-column layout even under ?theme=t1.
C6_ThemeOrder ==
  pc = "rendered" =>
    /\ (rin.theme = Str("t2") /\ rin.q = Str("t1") /\ ~rout.threw)
         => LayoutOf(rout.children) = "two-column"
    /\ OwnTheme =>
         /\ rout.className = "resume theme-" \o rin.theme.s
         /\ ~rout.threw => LayoutOf(rout.children) = LayoutFor(rin.theme.s)
    /\ (~OwnTheme /\ QueryTheme) =>
         /\ rout.className = "resume theme-" \o rin.q.s
         /\ ~rout.threw => LayoutOf(rout.children) = LayoutFor(rin.q.s)
    /\ (~OwnTheme /\ ~QueryTheme /\ ~rout.threw) =>
         LayoutOf(rout.children) = "single-column default"

C6_Witness ==
  /\ pc = "rendered"
  /\ rin.theme = Str("t2")
  /\ rin.q = Str("t1")
  /\ ~rout.threw
  /\ LayoutOf(rout.children) = "two-column"

\* an entry of education, certifications or links is null
HasNullEntry ==
  \E f \in {"education", "certifications", "links"} :
    /\ rin[f] # Absent
    /\ \E k \in 1..Len(rin[f].a) : rin[f].a[k] = Null

\* the theme in force is none of the three known ones
UnknownTheme == ExpectedTheme \notin {"t1", "t2", "t3"}

\* C7: an unrecognised theme id, from the record or from the query string,
\* gives the single-column default layout and raises no error of its own.
C7_UnknownThemeDefault ==
  (pc = "rendered" /\ UnknownTheme) =>
    /\ rout.threw = HasNullEntry
    /\ ~rout.threw => LayoutOf(rout.children) = "single-column default"

C7_Witness ==
  /\ pc = "rendered"
  /\ rin.theme = Absent
  /\ rin.q = Str("t9")
  /\ ~rout.threw
  /\ LayoutOf(rout.children) = "single-column default"

\* the sections in their fixed order, each with its heading
SectionOrder == <<"summary", "skills", "experience", "education", "certifications">>

HeadingOf(f) ==
  CASE f = "summary" -> "Professional summary"
    [] f = "skills" -> "Skills"
    [] f = "experience" -> "Employment history"
    [] f = "education" -> "Education"
    [] f = "certifications" -> "Certifications"

\* the backing field is there and is not an empty text / list
Present(f) == rin[f] \notin {Absent, Str(""), Arr(<<>>)}

\* the h2 headings under a list of nodes, in document order
RECURSIVE Headings(_)
Headings(nodes) ==
  IF nodes = <<>> THEN <<>>
  ELSE (IF Head(nodes).tag = "h2" THEN <<Head(nodes).html>> ELSE <<>>)
       \o Headings(Head(nodes).kids) \o Headings(Tail(nodes))

\* the number of section elements under a list of nodes
RECURSIVE SectionCount(_)
SectionCount(nodes) ==
  IF nodes = <<>> THEN 0
  ELSE (IF Head(nodes).tag = "section" THEN 1 ELSE 0)
       + SectionCount(Head(nodes).kids) + SectionCount(Tail(nodes))

\* the headings of the present sections, in the fixed order
RECURSIVE PresentHeadings(_)
PresentHeadings(fs) ==
  IF fs = <<>> THEN <<>>
  ELSE (IF Present(Head(fs)) THEN <<HeadingOf(Head(fs))>> ELSE <<>>)
       \o PresentHeadings(Tail(fs))

\* C9: a section whose field is absent or empty leaves no section node and
\* no heading under the root, in every theme; the single-column themes show
\* the present sections in the order summary, skills, experience, education,
\* certifications.
C9_EmptySectionsOmitted ==
  pc = "rendered" =>
    /\ \A k \in 1..Len(SectionOrder) :
         ~Present(SectionOrder[k]) =>
           \A m \in 1..Len(Headings(rout.children)) :
             Headings(rout.children)[m] # HeadingOf(SectionOrder[k])
    /\ (~rout.threw /\ LayoutOf(rout.children) # "two-column") =>
         /\ Headings(rout.children) = PresentHeadings(SectionOrder)
         /\ SectionCount(rout.children) = Len(PresentHeadings(SectionOrder))
         /\ \A k \in 2..Len(rout.children) :
              /\ rout.children[k].tag = "section"
              /\ rout.children[k].kids[1].html = PresentHeadings(SectionOrder)[k - 1]
    /\ (~rout.threw /\ LayoutOf(rout.children) = "two-column") =>
         SectionCount(rout.children) = 1 + Len(PresentHeadings(SectionOrder))

C9_Witness ==
  /\ pc = "rendered"
  /\ ~rout.threw
  /\ rin.theme = Str("t3")
  /\ ~Present("summary") /\ Present("skills")
  /\ ~Present("experience") /\ Present("certifications")
  /\ Headings(rout.children) = <<"Skills", "Certifications">>

-----------------------------------------------------------------------------
(* Properties of renderSkills, checked under SpecSkills.                   *)

\* the items of all categories, in category order then item order
AllItems ==
  LET cats == rin.a
      ItemsOf(c) == IF c.t = "object" /\ "items" \in DOMAIN c THEN c.items.a ELSE <<>>
      Upto[n \in 0..Len(cats)] ==
        IF n = 0 THEN <<>> ELSE Upto[n - 1] \o ItemsOf(cats[n])
  IN Upto[Len(cats)]

\* the positions of AllItems that hold the first occurrence of their value
FirstSeenAt == {i \in 1..Len(AllItems) : \A j \in 1..(i - 1) : AllItems[j] # AllItems[i]}

\* the values at the first-seen positions, joined by ', ' from the right
RECURSIVE CommaList(_)
CommaList(is) ==
  IF is = {} THEN ""
  ELSE LET i == CHOOSE x \in is : \A y \in is : x >= y
       IN (IF is = {i} THEN "" ELSE CommaList(is \ {i}) \o ", ") \o AllItems[i].s

SkillsExample ==
  Arr(<<Cat(<<Str("Go"), Str("Go"), Str("Rust")>>), Cat(<<Str("Rust")>>)>>)

\* C8: renderSkills lists the items of all categories in category then item
\* order, each value once at its first occurrence, joined by ', '.
C8_SkillsDedup ==
  (pc = "skillsDone" /\ IsArray(rin) /\ Len(rin.a) > 0) =>
    /\ rout.tag = "section"
    /\ rout.kids[1].html = "Skills"
    /\ rout.kids[2].html = CommaList(FirstSeenAt)
    /\ rin = SkillsExample => rout.kids[2].html = "Go, Rust"

C8_Witness ==
  /\ pc = "skillsDone"
  /\ rin = SkillsExample
  /\ rout.kids[2].html = "Go, Rust"

-----------------------------------------------------------------------------
(* The page load.                                                          *)

\* the script has executed and DOMContentLoaded has been dispatched: nothing
\* that could still call bootstrap is pending
TriggerSettled == pc # "unloaded" /\ domContentLoaded

\* C11: exactly one bootstrap sequence runs per page load, started once DOM
\* parsing has completed, whatever document.readyState is when the script
\* executes: bootstrap is never started twice, never started while the
\* document is still loading, and never skipped.
C11_ExactlyOnce ==
  /\ bootstrapCalls <= 1
  /\ bootstrapCalls > 0 => readyState # "loading"
  /\ TriggerSettled => bootstrapCalls = 1

-----------------------------------------------------------------------------
(* Falsy parsed values.                                                    *)

\* text.trim() starts with { or [
JsonLike(text) == StartsWith(Trim(text), "{") \/ StartsWith(Trim(text), "[")

\* a parser is at hand for the body of candidate p and reads it without
\* throwing
ParsesCleanly(p, text) ==
  IF EndsWith(p, ".json") \/ JsonLike(text) THEN ValidJSON(text)
  ELSE jsyaml /\ YAMLLoad(text).kind = "return"

\* the value that parse yields
ParsedValue(p, text) ==
  IF EndsWith(p, ".json") \/ JsonLike(text) THEN JSONParse(text).v
  ELSE YAMLLoad(text).v

\* the last candidate tried is the one loadResumeData returned from
ReturnedLast == tried # <<>> /\ tried[Len(tried)].parse = "returned"

\* C12: loadResumeData stops at the first candidate whose fetch succeeds and
\* whose body parses without throwing, also when the parsed value is falsy
\* (JSON null, false, 0, "", or a YAML body that loads as undefined or null):
\* it returns that value, no later candidate is fetched, and bootstrap then
\* shows the notice and does not call renderResume.
C12_FalsyStops ==
  /\ pc = "reading" =>
       \A text \in Docs :
         ParsesCleanly(Candidates[idx], text) =>
           ParseFile(Candidates[idx], text, jsyaml)
             = Returned(ParsedValue(Candidates[idx], text))
  /\ \A k \in 1..Len(tried) :
       /\ (/\ tried[k].read = "ok"
           /\ tried[k].body # "other"
           /\ (EndsWith(Candidates[k], ".json") \/ jsyaml
                 \/ tried[k].body = "jsonStruct"))
            => tried[k].parse = "returned"
       /\ tried[k].parse = "returned" =>
            /\ k = Len(tried)
            /\ Settled
            /\ \A j \in (k + 1)..Len(Candidates) : fetchCount[j] = 0
  /\ (Settled /\ ReturnedLast) =>
       /\ ParsesCleanly(Candidates[Len(tried)], file)
       /\ data = ParsedValue(Candidates[Len(tried)], file)
  /\ (pc = "done" /\ ReturnedLast /\ ~Truthy(data)) =>
       /\ renderCalls = 0
       /\ resumeRoot = InitialResumeRoot
       /\ NoticeVisible

\* resume.json holds null: the loader returned null from the first candidate,
\* nothing else was fetched, the notice is up and nothing was rendered
C12_Witness ==
  /\ pc = "done"
  /\ script = "app"
  /\ Len(tried) = 1
  /\ ReturnedLast
  /\ file = DocNull
  /\ data = Null
  /\ \A j \in 2..Len(Candidates) : fetchCount[j] = 0
  /\ renderCalls = 0
  /\ devNote = "shown"

=============================================================================
